---- MODULE Spec2Model ----
(***************************************************************************)
(* amdfan: device discovery (Card, Scanner), the fan curve (Curve) and the *)
(* control loop (FanController), modelled from src/amdfan/amdfan.py.       *)
(*                                                                         *)
(* Names of sysfs nodes are sequences of characters so that str.lower and  *)
(* the two regular expressions are computed, not assumed.  The arithmetic  *)
(* of set_fan_speed is IEEE-754 double arithmetic (Python float): a float  *)
(* is a 53-bit mantissa, most significant bit first, and the exponent of   *)
(* its least significant bit.                                              *)
(***************************************************************************)
EXTENDS Integers, Sequences, FiniteSets, TLC

VARIABLES
    listing,    \* os.listdir(ROOT_DIR): the node names, in listing order
    hwmon,      \* the hardware-monitor subtree under each node
    config,     \* the loaded configuration: cards, speed_matrix
    pc,         \* position of the process
    scan_i,     \* Scanner._get_cards: index of the node being looked at
    accessed,   \* nodes whose device/hwmon subtree has been listed
    cards,      \* Scanner.cards: the registry, in insertion order
    curve,      \* FanController.curve / the result of Curve(points)
    card_i,     \* FanController.main: index of the card being handled
    temp,       \* FanController.main: temp (raw millidegrees as read)
    speed,      \* FanController.main / set_fan_speed: the speed argument
    duty,       \* set_fan_speed: the value to write to pwm1
    log,        \* endpoint accesses of the current tick, oldest first
    calls,      \* Curve.get_speed calls made so far: [temp, res]
    exit,       \* exit status of the process and what ended it
    prompt,     \* monitor: the answers given to Prompt.ask
    round       \* monitor: iterations of the display loop done so far

vars == <<listing, hwmon, config, prompt, round, pc, scan_i, accessed, cards, curve,
          card_i, temp, speed, duty, log, calls, exit>>

(***************************************************************************)
(* Bounds of the model.                                                    *)
(***************************************************************************)
MaxDuty    == 60   \* pwm1_max / pwm1_min read from a device are in 0..MaxDuty
MaxSpeed   == 101  \* set_fan_speed is called with speed in -1..MaxSpeed
MaxPoints  == 3    \* enumerated speed matrices have 1..MaxPoints points
MaxTemp    == 2    \* enumerated curve temperatures are 10 * (0..MaxTemp)
SpeedScale == 2    \* speeds of a speed matrix are multiples of 1/SpeedScale

(***************************************************************************)
(* Strings.                                                                *)
(***************************************************************************)
Digits == {"0", "1", "2", "3", "4", "5", "6", "7", "8", "9"}

\* str.lower on one character
LowerChar(ch) ==
    CASE ch = "C" -> "c"
      [] ch = "A" -> "a"
      [] ch = "R" -> "r"
      [] ch = "D" -> "d"
      [] OTHER    -> ch

\* str.lower
Lower(s) == [i \in 1..Len(s) |-> LowerChar(s[i])]

card0   == <<"c", "a", "r", "d", "0">>
card1   == <<"c", "a", "r", "d", "1">>
CARD0   == <<"C", "A", "R", "D", "0">>
Card1   == <<"C", "a", "r", "d", "1">>
card2   == <<"c", "a", "r", "d", "2">>
version == <<"v", "e", "r", "s", "i", "o", "n">>
card0DP == <<"c", "a", "r", "d", "0", "-", "D", "P", "-", "1">>
hwmon0  == <<"h", "w", "m", "o", "n", "0">>
hwmon3  == <<"h", "w", "m", "o", "n", "3">>
hwmon10 == <<"h", "w", "m", "o", "n", "1", "0">>

\* re.match(r"^card\d$", node)
CARD_REGEX(node) ==
    /\ Len(node) = 5
    /\ SubSeq(node, 1, 4) = <<"c", "a", "r", "d">>
    /\ node[5] \in Digits

\* re.match(r"^hwmon\d$", node)
HWMON_REGEX(node) ==
    /\ Len(node) = 6
    /\ SubSeq(node, 1, 5) = <<"h", "w", "m", "o", "n">>
    /\ node[6] \in Digits

AMD_FIELDS == <<"temp1_input", "pwm1_max", "pwm1_min", "pwm1_enable", "pwm1">>

Bookkeeping == {"device", "power", "subsystem", "uevent"}

Required == {AMD_FIELDS[i] : i \in 1..Len(AMD_FIELDS)}

(***************************************************************************)
(* Python float (IEEE-754 binary64), for non-negative values: division of  *)
(* two integers, multiplication by an integer, int().  Each operation is   *)
(* the exact result rounded to 53 bits, ties to even.                      *)
(***************************************************************************)
MantBits == 53
LimbBits == 13

RECURSIVE Pow2(_)
Pow2(k) == IF k = 0 THEN 1 ELSE 2 * Pow2(k - 1)

\* 2^k mod b, by repeated squaring
RECURSIVE Pow2Mod(_, _)
Pow2Mod(k, b) ==
    IF k = 0 THEN 1 % b
    ELSE LET h == Pow2Mod(k \div 2, b)
         IN  (((h * h) % b) * (IF k % 2 = 1 THEN 2 ELSE 1)) % b

RECURSIVE BitLen(_)
BitLen(n) == IF n = 0 THEN 0 ELSE 1 + BitLen(n \div 2)

RECURSIVE BitsNat(_)
BitsNat(b) ==
    IF b = <<>> THEN 0 ELSE 2 * BitsNat(SubSeq(b, 1, Len(b) - 1)) + b[Len(b)]

FZero == [m |-> <<>>, e |-> 0]

\* the bit string plus one
IncBits(b) ==
    IF \A j \in 1..Len(b) : b[j] = 1
    THEN [j \in 1..(Len(b) + 1) |-> IF j = 1 THEN 1 ELSE 0]
    ELSE LET t == CHOOSE j \in 1..Len(b) :
                     b[j] = 0 /\ \A k \in (j + 1)..Len(b) : b[k] = 1
         IN  [j \in 1..Len(b) |-> IF j < t THEN b[j] ELSE IF j = t THEN 1 ELSE 0]

\* round the exact value bits * 2^e (plus a non-zero tail when sticky) to a
\* float: round to nearest, ties to even
RoundBits(bits, e, sticky) ==
    IF Len(bits) <= MantBits
    THEN [m |-> bits \o [i \in 1..(MantBits - Len(bits)) |-> 0],
          e |-> e - (MantBits - Len(bits))]
    ELSE LET keep == SubSeq(bits, 1, MantBits)
             g    == bits[MantBits + 1]
             st   == sticky \/ \E i \in (MantBits + 2)..Len(bits) : bits[i] = 1
             e2   == e + (Len(bits) - MantBits)
             up   == g = 1 /\ (st \/ keep[MantBits] = 1)
             inc  == IncBits(keep)
         IN  IF ~up THEN [m |-> keep, e |-> e2]
             ELSE IF Len(inc) > MantBits
                  THEN [m |-> SubSeq(inc, 1, MantBits), e |-> e2 + 1]
                  ELSE [m |-> inc, e |-> e2]

\* a / b for integers a >= 0, b > 0 (true division)
FDiv(a, b) ==
    IF a = 0 THEN FZero
    ELSE LET q  == a \div b
             r0 == a % b
             L  == BitLen(q)
             FracBit(i) == (2 * ((r0 * Pow2Mod(i - 1, b)) % b)) \div b
             z  == IF q > 0 \/ r0 = 0 THEN 0
                   ELSE (CHOOSE i \in 1..32 :
                            FracBit(i) = 1 /\ \A j \in 1..(i - 1) : FracBit(j) = 0) - 1
             n  == MantBits + 2
             bits == [k \in 1..n |->
                        IF k <= L THEN (q \div Pow2(L - k)) % 2
                        ELSE FracBit(z + k - L)]
             nf == z + n - L
         IN  RoundBits(bits, -nf, (r0 * Pow2Mod(nf, b)) % b # 0)

\* f * n for a float f >= 0 and an integer 0 <= n < 2^LimbBits
FMul(f, n) ==
    IF f.m = <<>> \/ n = 0 THEN FZero
    ELSE LET B == Pow2(LimbBits)
             lo(k) == IF MantBits - LimbBits * (k + 1) + 1 < 1 THEN 1
                      ELSE MantBits - LimbBits * (k + 1) + 1
             limb(k) == BitsNat(SubSeq(f.m, lo(k), MantBits - LimbBits * k))
             t0 == limb(0) * n
             t1 == limb(1) * n + t0 \div B
             t2 == limb(2) * n + t1 \div B
             t3 == limb(3) * n + t2 \div B
             t4 == limb(4) * n + t3 \div B
             out == <<t0 % B, t1 % B, t2 % B, t3 % B, t4>>
             len == LimbBits * 4 + BitLen(t4)
             bits == [j \in 1..len |->
                        LET i == len - j
                        IN  (out[(i \div LimbBits) + 1] \div Pow2(i % LimbBits)) % 2]
         IN  RoundBits(bits, f.e, FALSE)

\* int(f) for a float f >= 0: truncation
FInt(f) ==
    IF f.m = <<>> THEN 0
    ELSE IF f.e >= 0 THEN BitsNat(f.m) * Pow2(f.e)
    ELSE IF -f.e >= MantBits THEN 0
    ELSE BitsNat(SubSeq(f.m, 1, MantBits + f.e))

(***************************************************************************)
(* Card: the value computed by set_fan_speed, and gpu_temp.                *)
(***************************************************************************)
system_controlled_fan == 2
manual_control        == 1

\* ModeValue with the two values exchanged
ModeValueSwapped(state) == IF state THEN manual_control ELSE system_controlled_fan

\* set_system_controlled_fan: the value written to pwm1_enable
ModeValue(state) == IF state THEN system_controlled_fan ELSE manual_control

\* set_fan_speed, lines 121-126 and int(speed) of line 128: the value
\* written to pwm1, given what fan_max / fan_min return
FanDuty(sp, fmax, fmin) ==
    IF sp >= 100 THEN fmax
    ELSE IF sp <= 0 THEN fmin
    ELSE FInt(FMul(FDiv(fmax, 100), sp))

\* set_fan_speed: the endpoint it reads to compute the duty
BoundRead(sp) == IF sp > 0 THEN "pwm1_max" ELSE "pwm1_min"

\* int(temp) of FanController.main, temp = float(raw) / 1000
IntTemp(raw) == FInt(FDiv(raw, 1000))

(***************************************************************************)
(* Curve.  A point is <<temperature, speed * SpeedScale>>.                 *)
(***************************************************************************)
temps(points)  == [i \in 1..Len(points) |-> points[i][1]]
speeds(points) == [i \in 1..Len(points) |-> points[i][2]]

np_min(a) == CHOOSE x \in {a[i] : i \in 1..Len(a)} : \A j \in 1..Len(a) : x <= a[j]
np_max(a) == CHOOSE x \in {a[i] : i \in 1..Len(a)} : \A j \in 1..Len(a) : x >= a[j]
\* np_diff taking each element from the one before it
np_diff_reversed(a) == [i \in 1..(Len(a) - 1) |-> a[i] - a[i + 1]]

np_diff(a) == [i \in 1..(Len(a) - 1) |-> a[i + 1] - a[i]]

\* CurveCheck without the check of the speed differences
CurveCheckNoSpeedOrder(points) ==
    IF np_min(speeds(points)) < 0 THEN "negative speeds"
    ELSE IF np_max(speeds(points)) > 100 * SpeedScale THEN "speeds greater than 100"
    ELSE IF \E i \in 1..(Len(points) - 1) : np_diff(temps(points))[i] <= 0
         THEN "points not strictly increasing"
    ELSE IF np_min(speeds(points)) <= 3 * SpeedScale THEN "lowest speed"
    ELSE "ok"

\* Curve.__init__: "ok", or which ValueError is raised
CurveCheck(points) ==
    IF np_min(speeds(points)) < 0 THEN "negative speeds"
    ELSE IF np_max(speeds(points)) > 100 * SpeedScale THEN "speeds greater than 100"
    ELSE IF \E i \in 1..(Len(points) - 1) : np_diff(temps(points))[i] <= 0
         THEN "points not strictly increasing"
    ELSE IF \E i \in 1..(Len(points) - 1) : np_diff(speeds(points))[i] < 0
         THEN "speeds not increasing"
    ELSE IF np_min(speeds(points)) <= 3 * SpeedScale THEN "lowest speed"
    ELSE "ok"

\* np_interp measuring x from the right end of its interval
np_interp_from_right(x, xp, fp) ==
    LET len == Len(xp)
    IN  IF x > xp[len] THEN [n |-> fp[len], d |-> SpeedScale]
        ELSE IF x < xp[1] THEN [n |-> fp[1], d |-> SpeedScale]
        ELSE LET j == CHOOSE k \in 1..len :
                         xp[k] <= x /\ (k = len \/ x < xp[k + 1])
             IN  IF j = len \/ xp[j] = x THEN [n |-> fp[j], d |-> SpeedScale]
                 ELSE [n |-> (fp[j + 1] - fp[j]) * (xp[j + 1] - x)
                              + fp[j] * (xp[j + 1] - xp[j]),
                       d |-> SpeedScale * (xp[j + 1] - xp[j])]

\* np.interp(x, xp, fp): the speed in percent as the fraction n / d, d > 0
np_interp(x, xp, fp) ==
    LET len == Len(xp)
    IN  IF x > xp[len] THEN [n |-> fp[len], d |-> SpeedScale]
        ELSE IF x < xp[1] THEN [n |-> fp[1], d |-> SpeedScale]
        ELSE LET j == CHOOSE k \in 1..len :
                         xp[k] <= x /\ (k = len \/ x < xp[k + 1])
             IN  IF j = len \/ xp[j] = x THEN [n |-> fp[j], d |-> SpeedScale]
                 ELSE [n |-> (fp[j + 1] - fp[j]) * (x - xp[j])
                              + fp[j] * (xp[j + 1] - xp[j]),
                       d |-> SpeedScale * (xp[j + 1] - xp[j])]

\* Curve.get_speed
get_speed(points, t) == np_interp(t, temps(points), speeds(points))

\* int(x) of a fraction: truncation toward zero
IntOf(r) == IF r.n >= 0 THEN r.n \div r.d ELSE -((-r.n) \div r.d)

(***************************************************************************)
(* The hardware tree under ROOT_DIR, as the process finds it.              *)
(*   hwmon[node].exists : ROOT_DIR/node/device/hwmon is a directory        *)
(*   hwmon[node].subs   : its listing, each entry with the files under it  *)
(***************************************************************************)
AllFiles == Required \cup Bookkeeping \cup {"fan1_input"}

NoHwmon      == [exists |-> FALSE, subs |-> <<>>]
EmptyHwmon   == [exists |-> TRUE,  subs |-> <<>>]
Hwmon(n, fs) == [exists |-> TRUE,  subs |-> <<[name |-> n, files |-> fs]>>]

\* hardware trees of one node enumerated for the scan
ScanHw ==
    {NoHwmon, EmptyHwmon, Hwmon(hwmon10, AllFiles), Hwmon(hwmon0, AllFiles),
     Hwmon(hwmon3, Required),
     [exists |-> TRUE, subs |-> <<[name |-> hwmon0, files |-> Bookkeeping],
                                  [name |-> hwmon3, files |-> AllFiles]>>]}
    \cup {Hwmon(hwmon0, AllFiles \ {f}) : f \in Required}

\* hardware trees of one node enumerated for the control loop
LoopHw ==
    {NoHwmon, Hwmon(hwmon10, AllFiles), Hwmon(hwmon0, AllFiles), Hwmon(hwmon3, Required \cup Bookkeeping),
     Hwmon(hwmon0, AllFiles \ {"pwm1"})}

RootNodes == {card0, card1, version, card0DP}

\* sequences without repetition over a set of at most three names
Listings(S) ==
    {<<>>} \cup {<<a>> : a \in S}
    \cup {<<a, b>> : <<a, b>> \in {t \in S \X S : t[1] # t[2]}}
    \cup {<<a, b, c>> : <<a, b, c>> \in
            {t \in S \X S \X S : t[1] # t[2] /\ t[1] # t[3] /\ t[2] # t[3]}}

\* config.get("cards"): None, or a list of names
NoCards      == [given |-> FALSE, names |-> <<>>]
CardList(ns) == [given |-> TRUE, names |-> ns]

AllowLists ==
    {NoCards, CardList(<<>>), CardList(<<CARD0>>), CardList(<<card1>>),
     CardList(<<Card1, card0>>), CardList(<<card2>>)}

\* the truth value of cards_to_scan
Truthy(cards_to_scan) == cards_to_scan.given /\ Len(cards_to_scan.names) > 0

\* the default speed matrix of run_as_daemon
DefaultMatrix ==
    <<<<4, 4 * SpeedScale>>, <<30, 33 * SpeedScale>>, <<45, 50 * SpeedScale>>,
      <<60, 66 * SpeedScale>>, <<65, 69 * SpeedScale>>, <<70, 75 * SpeedScale>>,
      <<75, 89 * SpeedScale>>, <<80, 100 * SpeedScale>>>>

\* the speed matrix of test_curve
TestMatrix ==
    <<<<10, 10 * SpeedScale>>, <<20, 20 * SpeedScale>>, <<30, 30 * SpeedScale>>,
      <<70, 80 * SpeedScale>>, <<80, 100 * SpeedScale>>>>

\* no answer has been asked for: the process is the daemon, or a call on its own
NoPrompt  == [command |-> "none", card |-> <<>>, auto |-> FALSE, speed |-> 0]

NoCurve   == [state |-> "none", points |-> <<>>, err |-> "none"]
Running   == [code |-> -1, err |-> "none"]
Exited(e) == [code |-> 1, err |-> e]

(***************************************************************************)
(* Card.__init__ and Scanner._get_cards                                    *)
(***************************************************************************)
\* the hwmon entries of a node that match HWMON_REGEX, in listing order
Monitors(node) == SelectSeq(hwmon[node].subs, LAMBDA sub : HWMON_REGEX(sub.name))

\* Card._load_endpoints: the names kept in _endpoints
_load_endpoints(sub) == sub.files \ Bookkeeping

\* Card._verify_card: TRUE when it raises FileNotFoundError.  No line of the
\* source calls it: Card.__init__ goes from the monitor to _load_endpoints.
_verify_card(endpoints) == \E i \in 1..Len(AMD_FIELDS) : AMD_FIELDS[i] \notin endpoints

\* Card(card_id): the outcome of the constructor
Card(card_id) ==
    IF ~hwmon[card_id].exists THEN [raised |-> "FileNotFoundError"]
    ELSE IF Monitors(card_id) = <<>> THEN [raised |-> "AttributeError"]
    ELSE LET m == Monitors(card_id)[Len(Monitors(card_id))]
         IN  [raised |-> "none", id |-> card_id, monitor |-> m.name,
              endpoints |-> _load_endpoints(m)]

\* NotInCardsToScan when the allow-list is not consulted
NotInCardsToScanOff(node, cards_to_scan) == FALSE

\* the allow-list test of lines 147-150: TRUE when the node is skipped
NotInCardsToScan(node, cards_to_scan) ==
    /\ Truthy(cards_to_scan)
    /\ Lower(node) \notin {Lower(cards_to_scan.names[i]) :
                              i \in 1..Len(cards_to_scan.names)}

\* one iteration of the loop of _get_cards
ScanNode ==
    /\ pc = "scan"
    /\ scan_i <= Len(listing)
    /\ LET node == listing[scan_i]
       IN  IF ~CARD_REGEX(node) \/ NotInCardsToScan(node, config.cards)
           THEN /\ scan_i' = scan_i + 1
                /\ UNCHANGED <<pc, accessed, cards, exit>>
           ELSE LET made == Card(node)
                IN  /\ accessed' = accessed \cup {node}
                    /\ IF made.raised = "none"
                       THEN /\ cards' = Append(cards, [id |-> made.id,
                                                       monitor |-> made.monitor,
                                                       endpoints |-> made.endpoints])
                            /\ scan_i' = scan_i + 1
                            /\ UNCHANGED <<pc, exit>>
                       ELSE IF made.raised = "FileNotFoundError"
                       THEN /\ scan_i' = scan_i + 1
                            /\ UNCHANGED <<pc, cards, exit>>
                       ELSE /\ pc' = "exit"
                            /\ exit' = Exited(made.raised)
                            /\ UNCHANGED <<scan_i, cards>>
    /\ UNCHANGED <<listing, hwmon, config, prompt, round, curve, card_i, temp, speed, duty,
                   log, calls>>

\* _get_cards has returned
Scanned == pc = "scan" /\ scan_i > Len(listing)

(***************************************************************************)
(* FanController                                                           *)
(***************************************************************************)
\* run_as_daemon, line 250, into FanController.__init__, line 164
RunAsDaemon ==
    /\ pc = "start"
    /\ pc' = "scan"
    /\ scan_i' = 1
    /\ cards' = <<>>
    /\ UNCHANGED <<listing, hwmon, config, prompt, round, accessed, curve, card_i, temp,
                   speed, duty, log, calls, exit>>

\* NoCompatibleCards when the registry is not looked at
NoCompatibleCardsOff(registry) == FALSE

\* FanController.__init__, line 165
NoCompatibleCards(registry) == Len(registry) < 1

\* FanController.__init__, lines 165-169, and the entry of main
FanControllerInit ==
    /\ Scanned
    /\ IF NoCompatibleCards(cards)
       THEN /\ pc' = "exit"
            /\ exit' = Exited("SystemExit")
            /\ UNCHANGED <<curve, card_i, log>>
       ELSE IF CurveCheck(config.speed_matrix) # "ok"
       THEN /\ pc' = "exit"
            /\ exit' = Exited("ValueError")
            /\ curve' = [state |-> "error", points |-> <<>>,
                         err |-> CurveCheck(config.speed_matrix)]
            /\ UNCHANGED <<card_i, log>>
       ELSE /\ pc' = "read_temp"
            /\ curve' = [state |-> "ok", points |-> config.speed_matrix,
                         err |-> "none"]
            /\ card_i' = 1
            /\ log' = <<>>
            /\ UNCHANGED exit
    /\ UNCHANGED <<listing, hwmon, config, prompt, round, scan_i, accessed, cards, temp,
                   speed, duty, calls>>

\* an access of an endpoint of the card being handled
Ev(op, ep, val, ok) ==
    [op |-> op, card |-> cards[card_i].id, ep |-> ep, val |-> val, ok |-> ok]

Has(ep) == ep \in cards[card_i].endpoints

\* the process ends on an exception or on sys.exit(1)
Die(e) == pc' = "exit" /\ exit' = Exited(e)

\* ReadTemp leaving out a card whose temperature cannot be read
ReadTempSkipFailed(readings) ==
    /\ pc = "read_temp"
    /\ card_i <= Len(cards)
    /\ \/ /\ ~Has("temp1_input")
          /\ Die("KeyError")
          /\ UNCHANGED <<temp, speed, log>>
       \/ /\ Has("temp1_input")
          /\ pc' = "sfs_ret"
          /\ log' = Append(log, Ev("read", "temp1_input", 0, FALSE))
          /\ UNCHANGED <<temp, speed, exit>>
       \/ /\ Has("temp1_input")
          /\ \E raw \in readings :
                LET sp == IntOf(get_speed(curve.points, IntTemp(raw)))
                IN  /\ temp' = raw
                    /\ speed' = IF sp < 0 THEN 0 ELSE sp
                    /\ log' = Append(log, Ev("read", "temp1_input", raw, TRUE))
          /\ pc' = "debug"
          /\ UNCHANGED exit
    /\ UNCHANGED <<listing, hwmon, config, prompt, round, scan_i, accessed, cards, curve,
                   card_i, duty, calls>>

\* ReadTemp computing the speed from the temperature it held before
ReadTempCached(readings) ==
    /\ pc = "read_temp"
    /\ card_i <= Len(cards)
    /\ \/ /\ ~Has("temp1_input")
          /\ Die("KeyError")
          /\ UNCHANGED <<temp, speed, log>>
       \/ /\ Has("temp1_input")
          /\ Die("OSError")
          /\ log' = Append(log, Ev("read", "temp1_input", 0, FALSE))
          /\ UNCHANGED <<temp, speed>>
       \/ /\ Has("temp1_input")
          /\ \E raw \in readings :
                LET sp == IntOf(get_speed(curve.points, IntTemp(temp)))
                IN  /\ temp' = raw
                    /\ speed' = IF sp < 0 THEN 0 ELSE sp
                    /\ log' = Append(log, Ev("read", "temp1_input", raw, TRUE))
          /\ pc' = "debug"
          /\ UNCHANGED exit
    /\ UNCHANGED <<listing, hwmon, config, prompt, round, scan_i, accessed, cards, curve,
                   card_i, duty, calls>>

\* FanController.main, lines 175-178
ReadTemp(readings) ==
    /\ pc = "read_temp"
    /\ card_i <= Len(cards)
    /\ \/ /\ ~Has("temp1_input")
          /\ Die("KeyError")
          /\ UNCHANGED <<temp, speed, log>>
       \/ /\ Has("temp1_input")
          /\ Die("OSError")
          /\ log' = Append(log, Ev("read", "temp1_input", 0, FALSE))
          /\ UNCHANGED <<temp, speed>>
       \/ /\ Has("temp1_input")
          /\ \E raw \in readings :
                LET sp == IntOf(get_speed(curve.points, IntTemp(raw)))
                IN  /\ temp' = raw
                    /\ speed' = IF sp < 0 THEN 0 ELSE sp
                    /\ log' = Append(log, Ev("read", "temp1_input", raw, TRUE))
          /\ pc' = "debug"
          /\ UNCHANGED exit
    /\ UNCHANGED <<listing, hwmon, config, prompt, round, scan_i, accessed, cards, curve,
                   card_i, duty, calls>>

\* the endpoints read for the arguments of LOGGER.debug, lines 188-190;
\* fan_speed reads nothing when fan1_input is not an endpoint of the card
DebugReads ==
    (IF Has("fan1_input") THEN <<"fan1_input">> ELSE <<>>) \o <<"pwm1_min", "pwm1_max">>

\* FanController.main, lines 180-191; k is the read that fails, 0 for none;
\* lo and hi are what pwm1_min and pwm1_max hold, the speed of the fan is
\* only printed and is recorded as 0
DebugLog(mins, maxs) ==
    /\ pc = "debug"
    /\ \E k \in 0..Len(DebugReads), lo \in mins, hi \in maxs :
          LET n    == IF k = 0 THEN Len(DebugReads) ELSE k - 1
              val(ep) == IF ep = "pwm1_min" THEN lo
                         ELSE IF ep = "pwm1_max" THEN hi ELSE 0
              done == [i \in 1..n |->
                         Ev("read", DebugReads[i], val(DebugReads[i]), TRUE)]
          IN  /\ \A i \in 1..n : Has(DebugReads[i])
              /\ IF k = 0
                 THEN /\ log' = log \o done
                      /\ pc' = "sfs_read"
                      /\ UNCHANGED exit
                 ELSE IF Has(DebugReads[k])
                 THEN /\ log' = log \o done \o <<Ev("read", DebugReads[k], 0, FALSE)>>
                      /\ Die("OSError")
                 ELSE /\ log' = log \o done
                      /\ Die("KeyError")
    /\ UNCHANGED <<listing, hwmon, config, prompt, round, scan_i, accessed, cards, curve,
                   card_i, temp, speed, duty, calls>>

\* Card.set_fan_speed, lines 121-126: fan_max or fan_min is read
SetFanSpeedRead(readings) ==
    /\ pc = "sfs_read"
    /\ LET ep == BoundRead(speed)
       IN  \/ /\ ~Has(ep)
              /\ Die("KeyError")
              /\ UNCHANGED <<duty, log>>
           \/ /\ Has(ep)
              /\ Die("OSError")
              /\ log' = Append(log, Ev("read", ep, 0, FALSE))
              /\ UNCHANGED duty
           \/ /\ Has(ep)
              /\ \E v \in readings :
                    /\ duty' = FanDuty(speed, v, v)
                    /\ log' = Append(log, Ev("read", ep, v, TRUE))
              /\ pc' = "sfs_mode"
              /\ UNCHANGED exit
    /\ UNCHANGED <<listing, hwmon, config, prompt, round, scan_i, accessed, cards, curve,
                   card_i, temp, speed, calls>>

\* WriteEndpoint when PermissionError is swallowed instead of ending the process
WriteEndpointCarryOn(at, ep, data, to) ==
    /\ pc = at
    /\ \/ /\ ~Has(ep)
          /\ Die("KeyError")
          /\ UNCHANGED log
       \/ /\ Has(ep)
          /\ pc' = to
          /\ log' = Append(log, Ev("write", ep, data, FALSE))
          /\ UNCHANGED exit
       \/ /\ Has(ep)
          /\ pc' = to
          /\ log' = Append(log, Ev("write", ep, data, TRUE))
          /\ UNCHANGED exit
    /\ UNCHANGED <<listing, hwmon, config, prompt, round, scan_i, accessed, cards, curve,
                   card_i, temp, speed, duty, calls>>

\* Card.write_endpoint, lines 82-90, from position at writing ep, then
\* position to on success
WriteEndpoint(at, ep, data, to) ==
    /\ pc = at
    /\ \/ /\ ~Has(ep)
          /\ Die("KeyError")
          /\ UNCHANGED log
       \/ /\ Has(ep)
          /\ Die("SystemExit")
          /\ log' = Append(log, Ev("write", ep, data, FALSE))
       \/ /\ Has(ep)
          /\ pc' = to
          /\ log' = Append(log, Ev("write", ep, data, TRUE))
          /\ UNCHANGED exit
    /\ UNCHANGED <<listing, hwmon, config, prompt, round, scan_i, accessed, cards, curve,
                   card_i, temp, speed, duty, calls>>

\* Card.set_fan_speed, line 127: set_system_controlled_fan(False)
SetFanSpeedMode == WriteEndpoint("sfs_mode", "pwm1_enable", ModeValue(FALSE), "sfs_duty")

\* Card.set_fan_speed, line 128
SetFanSpeedDuty == WriteEndpoint("sfs_duty", "pwm1", duty, "sfs_ret")

\* FanController.main, line 174: the next card of the registry
NextCard ==
    /\ pc = "sfs_ret"
    /\ card_i < Len(cards)
    /\ card_i' = card_i + 1
    /\ pc' = "read_temp"
    /\ UNCHANGED <<listing, hwmon, config, prompt, round, scan_i, accessed, cards, curve,
                   temp, speed, duty, log, calls, exit>>

\* Sleep when the next tick starts at the second card of the registry
SleepSkipFirst ==
    /\ pc = "sfs_ret"
    /\ card_i >= Len(cards)
    /\ card_i' = IF Len(cards) > 1 THEN 2 ELSE 1
    /\ log' = <<>>
    /\ pc' = "read_temp"
    /\ UNCHANGED <<listing, hwmon, config, prompt, round, scan_i, accessed, cards, curve,
                   temp, speed, duty, calls, exit>>

\* FanController.main, lines 194 and 173: the tick is over, the next begins
Sleep ==
    /\ pc = "sfs_ret"
    /\ card_i >= Len(cards)
    /\ card_i' = 1
    /\ log' = <<>>
    /\ pc' = "read_temp"
    /\ UNCHANGED <<listing, hwmon, config, prompt, round, scan_i, accessed, cards, curve,
                   temp, speed, duty, calls, exit>>

(***************************************************************************)
(* monitor: the interactive get / set command                              *)
(***************************************************************************)
Rounds == 40

\* what is typed at "Fan speed, [1..100]% or 'auto'"; any other answer is
\* asked again
SpeedAnswers == {1, 50, 100}

\* monitor, lines 317-321: the command is asked, then Scanner() without a
\* list of cards
Monitor ==
    /\ pc = "start"
    /\ \E c \in {"get", "set"} : prompt' = [NoPrompt EXCEPT !.command = c]
    /\ pc' = "scan"
    /\ scan_i' = 1
    /\ cards' = <<>>
    /\ UNCHANGED <<listing, hwmon, config, round, accessed, curve, card_i, temp,
                   speed, duty, log, calls, exit>>

\* monitor, lines 322-324: the first of the tables of 'get'
MonitorGet ==
    /\ Scanned
    /\ prompt.command = "get"
    /\ pc' = "show_table"
    /\ round' = 1
    /\ card_i' = 1
    /\ log' = <<>>
    /\ UNCHANGED <<listing, hwmon, config, prompt, scan_i, accessed, cards, curve,
                   temp, speed, duty, calls, exit>>

\* show_table, lines 309-312: one row, fan_speed then gpu_temp of the card
ShowTableRow(readings) ==
    /\ pc = "show_table"
    /\ card_i <= Len(cards)
    /\ LET fan == IF Has("fan1_input")
                  THEN <<Ev("read", "fan1_input", 0, TRUE)>> ELSE <<>>
       IN  \/ /\ Has("fan1_input")
              /\ Die("OSError")
              /\ log' = Append(log, Ev("read", "fan1_input", 0, FALSE))
              /\ UNCHANGED card_i
           \/ /\ ~Has("temp1_input")
              /\ Die("KeyError")
              /\ log' = log \o fan
              /\ UNCHANGED card_i
           \/ /\ Has("temp1_input")
              /\ Die("OSError")
              /\ log' = log \o fan \o <<Ev("read", "temp1_input", 0, FALSE)>>
              /\ UNCHANGED card_i
           \/ /\ Has("temp1_input")
              /\ \E raw \in readings :
                    log' = log \o fan \o <<Ev("read", "temp1_input", raw, TRUE)>>
              /\ card_i' = card_i + 1
              /\ UNCHANGED <<pc, exit>>
    /\ UNCHANGED <<listing, hwmon, config, prompt, round, scan_i, accessed, cards, curve,
                   temp, speed, duty, calls>>

\* monitor, lines 324-326: the table is shown, and the next one is built
\* until range(40) is used up
LiveUpdate ==
    /\ pc = "show_table"
    /\ card_i > Len(cards)
    /\ IF round < Rounds
       THEN /\ round' = round + 1
            /\ card_i' = 1
            /\ log' = <<>>
            /\ UNCHANGED pc
       ELSE /\ pc' = "sys_exit"
            /\ UNCHANGED <<round, card_i, log>>
    /\ UNCHANGED <<listing, hwmon, config, prompt, scan_i, accessed, cards, curve,
                   temp, speed, duty, calls, exit>>

\* monitor, lines 328-349: the card and the speed are asked; the card is one
\* of the keys of the registry
MonitorSet ==
    /\ Scanned
    /\ prompt.command = "set"
    /\ \E i \in 1..Len(cards), auto \in BOOLEAN, n \in SpeedAnswers :
          /\ prompt' = [command |-> "set", card |-> cards[i].id, auto |-> auto,
                        speed |-> IF auto THEN 0 ELSE n]
          /\ card_i' = i
          /\ speed' = IF auto THEN speed ELSE n
          /\ pc' = IF auto THEN "set_auto" ELSE "sfs_read"
    /\ log' = <<>>
    /\ UNCHANGED <<listing, hwmon, config, round, scan_i, accessed, cards, curve,
                   temp, duty, calls, exit>>

\* monitor, line 346: set_system_controlled_fan(True)
SetSystemControlled ==
    WriteEndpoint("set_auto", "pwm1_enable", ModeValue(TRUE), "sys_exit")

\* monitor, line 351
MonitorExit ==
    /\ pc \in {"sys_exit", "sfs_ret"}
    /\ prompt.command # "none"
    /\ Die("SystemExit")
    /\ UNCHANGED <<listing, hwmon, config, prompt, round, scan_i, accessed, cards, curve,
                   card_i, temp, speed, duty, log, calls>>

(***************************************************************************)
(* Curve, called on its own                                                *)
(***************************************************************************)
\* Curve.__init__
CurveInit ==
    /\ pc = "curve"
    /\ IF CurveCheck(config.speed_matrix) = "ok"
       THEN /\ curve' = [state |-> "ok", points |-> config.speed_matrix,
                         err |-> "none"]
            /\ pc' = "curve_ok"
            /\ UNCHANGED exit
       ELSE /\ curve' = [state |-> "error", points |-> <<>>,
                         err |-> CurveCheck(config.speed_matrix)]
            /\ Die("ValueError")
    /\ UNCHANGED <<listing, hwmon, config, prompt, round, scan_i, accessed, cards, card_i,
                   temp, speed, duty, log, calls>>

\* temperatures get_speed is asked for
QueryTemps == {5 * k - 5 : k \in 0..(2 * MaxTemp + 3)} \cup {50, 60, 80}

\* Curve.get_speed(t)
GetSpeed ==
    /\ pc = "curve_ok"
    /\ Len(calls) < 2
    /\ \E t \in QueryTemps :
          calls' = Append(calls, [temp |-> t, res |-> get_speed(curve.points, t)])
    /\ UNCHANGED <<listing, hwmon, config, prompt, round, pc, scan_i, accessed, cards, curve,
                   card_i, temp, speed, duty, log, exit>>

(***************************************************************************)
(* Specifications                                                          *)
(***************************************************************************)
CardNodes == {n \in RootNodes : CARD_REGEX(n)}

\* the trees in which the card nodes of a listing take their subtree from opts
Trees(nodes, opts) ==
    {[n \in RootNodes |-> IF n \in DOMAIN f THEN f[n] ELSE NoHwmon] :
        f \in [{nodes[i] : i \in 1..Len(nodes)} \cap CardNodes -> opts]}

\* a speed matrix rejected by Curve
LowMatrix == <<<<4, 3 * SpeedScale>>, <<30, 33 * SpeedScale>>>>

LoopListings == {<<>>, <<card0>>, <<card1, card0>>, <<card0, version, card1>>}
LoopAllow    == {NoCards, CardList(<<CARD0>>), CardList(<<card2>>)}
TempReadings == {20000, 45999, 80000}
FanReadings  == {58, 255}
FanMinReadings == {0, 30}

\* a speed matrix whose lowest speed lies between 3 and 4
HalfMatrix == <<<<30, 3 * SpeedScale + 1>>, <<45, 50 * SpeedScale>>>>

\* the daemon: run_as_daemon with a loaded configuration
Init ==
    /\ listing \in LoopListings
    /\ hwmon \in Trees(listing, LoopHw)
    /\ config \in [cards : LoopAllow, speed_matrix : {DefaultMatrix, LowMatrix, HalfMatrix}]
    /\ pc = "start"
    /\ scan_i = 1
    /\ accessed = {}
    /\ cards = <<>>
    /\ curve = NoCurve
    /\ card_i = 1
    /\ temp = 0
    /\ speed = 0
    /\ duty = 0
    /\ log = <<>>
    /\ calls = <<>>
    /\ exit = Running
    /\ prompt = NoPrompt
    /\ round = 0

Next ==
    \/ RunAsDaemon
    \/ ScanNode
    \/ FanControllerInit
    \/ ReadTemp(TempReadings)
    \/ DebugLog(FanMinReadings, FanReadings)
    \/ SetFanSpeedRead(FanReadings)
    \/ SetFanSpeedMode
    \/ SetFanSpeedDuty
    \/ NextCard
    \/ Sleep

Spec == Init /\ [][Next]_vars

\* Scanner(cards) on its own, over every enumerated tree
InitScan ==
    /\ listing \in Listings(RootNodes)
    /\ hwmon \in Trees(listing, ScanHw)
    /\ config \in [cards : AllowLists, speed_matrix : {DefaultMatrix}]
    /\ pc = "scan"
    /\ scan_i = 1
    /\ accessed = {}
    /\ cards = <<>>
    /\ curve = NoCurve
    /\ card_i = 1
    /\ temp = 0
    /\ speed = 0
    /\ duty = 0
    /\ log = <<>>
    /\ calls = <<>>
    /\ exit = Running
    /\ prompt = NoPrompt
    /\ round = 0

NextScan == ScanNode

SpecScan == InitScan /\ [][NextScan]_vars

\* the card set_fan_speed is called on
FanCards ==
    {<<[id |-> card0, monitor |-> hwmon0, endpoints |-> AllFiles \ (Bookkeeping \cup gone)]>> :
        gone \in {{}, {"pwm1"}, {"pwm1_enable"}, {"pwm1_max", "pwm1_min"}}}

\* Card.set_fan_speed(speed) on its own
InitFan ==
    /\ listing = <<card0>>
    /\ hwmon = [n \in RootNodes |-> IF n = card0 THEN Hwmon(hwmon0, AllFiles) ELSE NoHwmon]
    /\ config = [cards |-> NoCards, speed_matrix |-> DefaultMatrix]
    /\ pc = "sfs_read"
    /\ scan_i = 2
    /\ accessed = {card0}
    /\ cards \in FanCards
    /\ curve = NoCurve
    /\ card_i = 1
    /\ temp = 0
    /\ speed \in (-1)..MaxSpeed
    /\ duty = 0
    /\ log = <<>>
    /\ calls = <<>>
    /\ exit = Running
    /\ prompt = NoPrompt
    /\ round = 0

NextFan ==
    \/ SetFanSpeedRead(0..MaxDuty)
    \/ SetFanSpeedMode
    \/ SetFanSpeedDuty

SpecFan == InitFan /\ [][NextFan]_vars

\* the speeds (times SpeedScale) and the points of the enumerated matrices
MatrixSpeeds ==
    {-1, 3 * SpeedScale, 3 * SpeedScale + 1, 4 * SpeedScale, 50 * SpeedScale,
     100 * SpeedScale, 100 * SpeedScale + 1}
MatrixPoints == {<<10 * t, s>> : t \in 0..MaxTemp, s \in MatrixSpeeds}

RECURSIVE Matrices(_)
Matrices(n) ==
    IF n = 0 THEN {<<>>}
    ELSE LET shorter == Matrices(n - 1)
         IN  shorter \cup {Append(m, pt) : m \in {x \in shorter : Len(x) = n - 1},
                                           pt \in MatrixPoints}

\* Curve(points) and get_speed on their own
InitCurve ==
    /\ listing = <<>>
    /\ hwmon = [n \in RootNodes |-> NoHwmon]
    /\ config \in [cards : {NoCards},
                   speed_matrix : (Matrices(MaxPoints) \ {<<>>})
                                  \cup {DefaultMatrix, TestMatrix}]
    /\ pc = "curve"
    /\ scan_i = 1
    /\ accessed = {}
    /\ cards = <<>>
    /\ curve = NoCurve
    /\ card_i = 1
    /\ temp = 0
    /\ speed = 0
    /\ duty = 0
    /\ log = <<>>
    /\ calls = <<>>
    /\ exit = Running
    /\ prompt = NoPrompt
    /\ round = 0

NextCurve ==
    \/ CurveInit
    \/ GetSpeed

SpecCurve == InitCurve /\ [][NextCurve]_vars

\* monitor
InitMonitor ==
    /\ listing \in LoopListings
    /\ hwmon \in Trees(listing, LoopHw)
    /\ config \in [cards : {NoCards}, speed_matrix : {DefaultMatrix}]
    /\ pc = "start"
    /\ scan_i = 1
    /\ accessed = {}
    /\ cards = <<>>
    /\ curve = NoCurve
    /\ card_i = 1
    /\ temp = 0
    /\ speed = 0
    /\ duty = 0
    /\ log = <<>>
    /\ calls = <<>>
    /\ exit = Running
    /\ prompt = NoPrompt
    /\ round = 0

NextMonitor ==
    \/ Monitor
    \/ ScanNode
    \/ MonitorGet
    \/ ShowTableRow(TempReadings)
    \/ LiveUpdate
    \/ MonitorSet
    \/ SetSystemControlled
    \/ SetFanSpeedRead(FanReadings)
    \/ SetFanSpeedMode
    \/ SetFanSpeedDuty
    \/ MonitorExit

SpecMonitor == InitMonitor /\ [][NextMonitor]_vars

(***************************************************************************)
(* Properties                                                              *)
(***************************************************************************)
\* the files of the hardware-monitor directory the card object of a node uses
MonitorFiles(node) == Monitors(node)[Len(Monitors(node))].files

\* x and y are the same letter, whatever their case
SameLetter(x, y) ==
    \/ x = y
    \/ {x, y} \in {{"c", "C"}, {"a", "A"}, {"r", "R"}, {"d", "D"}}

\* a and b are the same name, whatever the case of their letters
SameName(a, b) == Len(a) = Len(b) /\ \A i \in 1..Len(a) : SameLetter(a[i], b[i])

\* node is named by an entry of the allow-list
Allowed(node) ==
    \E k \in 1..Len(config.cards.names) : SameName(node, config.cards.names[k])

\* a node of the listing that is a card, passes the allow-list and has a
\* hardware-monitor directory
Candidate(node) ==
    /\ CARD_REGEX(node)
    /\ Truthy(config.cards) => Allowed(node)
    /\ hwmon[node].exists
    /\ Monitors(node) # <<>>

InRegistry(node) == \E i \in 1..Len(cards) : cards[i].id = node

\* C1: when the scan has returned, a candidate is in the registry exactly
\* when its hardware-monitor directory has every required endpoint: one
\* that lacks a required endpoint is absent, every other one is present.
C1_MissingEndpointExcluded ==
    Scanned =>
        \A j \in 1..Len(listing) :
            Candidate(listing[j]) =>
                (InRegistry(listing[j]) <=> Required \subseteq MonitorFiles(listing[j]))

IsWrite(e, ep) == e.op = "write" /\ e.ep = ep

\* C2: every write to pwm1 of a card comes right after a successful write
\* of manual_control (1) to pwm1_enable of the same card, no other access in
\* between; so the last mode written before a duty write is never auto.
C2_ManualBeforeDuty ==
    \A i \in 1..Len(log) :
        IsWrite(log[i], "pwm1") =>
            /\ i > 1
            /\ log[i - 1] = [op |-> "write", card |-> log[i].card,
                             ep |-> "pwm1_enable", val |-> 1, ok |-> TRUE]

\* a second card of the registry has had its duty written
C2_Witness ==
    /\ card_i = 2
    /\ \E i \in 1..Len(log) :
          IsWrite(log[i], "pwm1") /\ log[i].ok /\ log[i].card = cards[2].id

\* the duty the claim states for a speed and the bound read from the device
C3_Expected(sp, bound) ==
    IF sp >= 100 THEN bound
    ELSE IF sp <= 0 THEN bound
    ELSE (bound * sp) \div 100

\* C3: the value set_fan_speed writes to pwm1 is pwm1_max when speed >= 100,
\* pwm1_min when speed <= 0, and otherwise pwm1_max * speed / 100 truncated
\* to an integer.
C3_DutyFormula ==
    \A i \in 1..Len(log) :
        IsWrite(log[i], "pwm1") =>
            \E r \in 1..(i - 1) :
                /\ log[r].op = "read" /\ log[r].ok
                /\ log[r].ep = (IF speed <= 0 THEN "pwm1_min" ELSE "pwm1_max")
                /\ log[i].val = C3_Expected(speed, log[r].val)

FailedWrite(i) == log[i].op = "write" /\ ~log[i].ok

\* C4: a write rejected for lack of privilege ends the process with status
\* 1 at that point: it is the last access made, and once the process has
\* ended no endpoint is accessed and nothing runs again.
C4_PermissionFatal ==
    /\ [](\A i \in 1..Len(log) :
            FailedWrite(i) => pc = "exit" /\ exit.code = 1 /\ i = Len(log))
    /\ [][pc = "exit" => pc' = "exit" /\ log' = log]_vars

\* the duty write of the first of two cards was rejected: the second card
\* is never handled
C4_Witness ==
    /\ pc = "exit" /\ exit = Exited("SystemExit")
    /\ Len(cards) = 2 /\ card_i = 1
    /\ Len(log) > 0 /\ FailedWrite(Len(log)) /\ log[Len(log)].ep = "pwm1"

\* C5: when the scan of the daemon has returned an empty registry the
\* process has ended with status 1 and no endpoint has been read or written.
C5_EmptyRegistryFatal ==
    (Len(cards) = 0 /\ pc \notin {"start", "scan"}) =>
        /\ pc = "exit" /\ exit.code = 1
        /\ log = <<>>
        /\ curve = NoCurve

\* the scan looked at a card node, kept none, and the process ended
C5_Witness ==
    /\ pc = "exit" /\ exit = Exited("SystemExit")
    /\ cards = <<>> /\ scan_i > Len(listing)
    /\ \E j \in 1..Len(listing) : CARD_REGEX(listing[j])

StrictlyIncreasing(a) == \A i, j \in 1..Len(a) : i < j => a[i] < a[j]
NonDecreasing(a)      == \A i, j \in 1..Len(a) : i < j => a[i] <= a[j]
InPercentRange(a)     == \A i \in 1..Len(a) : 0 <= a[i] /\ a[i] <= 100 * SpeedScale
AtLeastFour(a)        == \A i \in 1..Len(a) : a[i] >= 4 * SpeedScale

\* the four invariants of a curve
CurveInvariants(points) ==
    /\ StrictlyIncreasing(temps(points))
    /\ NonDecreasing(speeds(points))
    /\ InPercentRange(speeds(points))
    /\ AtLeastFour(speeds(points))

\* C6: Curve(points) succeeds exactly when the four invariants hold, and
\* fails with a ValueError otherwise; a Curve that exists satisfies them.
C6_ConstructIff ==
    pc # "curve" =>
        /\ curve.state = "ok" <=> CurveInvariants(config.speed_matrix)
        /\ curve.state = "error" <=> ~CurveInvariants(config.speed_matrix)
        /\ curve.state = "ok" => CurveInvariants(curve.points)

\* the fraction r equals n / d
RatEq(r, n, d) == r.n * d = n * r.d

\* C7: get_speed is the piecewise-linear reference: the first speed at or
\* below the first temperature, the last speed at or above the last, s_i at
\* t_i, and s0 + (temp - t0) / (t1 - t0) * (s1 - s0) between two consecutive
\* points; on the matrix of test_curve, 67.5 at 60, 55 at 50, 100 at 80 and
\* 10 at 0.
C7_PiecewiseLinear ==
    \A c \in 1..Len(calls) :
        LET P == curve.points
            n == Len(P)
            t == calls[c].temp
            r == calls[c].res
        IN  /\ r.d > 0
            /\ t <= P[1][1] => RatEq(r, P[1][2], SpeedScale)
            /\ t >= P[n][1] => RatEq(r, P[n][2], SpeedScale)
            /\ \A i \in 1..n : t = P[i][1] => RatEq(r, P[i][2], SpeedScale)
            /\ \A i \in 1..(n - 1) :
                  (P[i][1] < t /\ t < P[i + 1][1]) =>
                      RatEq(r, P[i][2] * (P[i + 1][1] - P[i][1])
                               + (t - P[i][1]) * (P[i + 1][2] - P[i][2]),
                            SpeedScale * (P[i + 1][1] - P[i][1]))
            /\ P = TestMatrix =>
                  /\ t = 60 => RatEq(r, 135, 2)
                  /\ t = 50 => RatEq(r, 55, 1)
                  /\ t = 80 => RatEq(r, 100, 1)
                  /\ t = 0  => RatEq(r, 10, 1)

\* get_speed(60) was asked of the curve of test_curve and gave 67.5
C7_Witness ==
    /\ curve.state = "ok" /\ curve.points = TestMatrix
    /\ Len(calls) > 0 /\ calls[1].temp = 60 /\ RatEq(calls[1].res, 135, 2)

\* the fraction a is at most the fraction b (denominators positive)
RatLeq(a, b) == a.n * b.d <= b.n * a.d

\* C8: get_speed is non-decreasing: of two calls on the same curve, the one
\* with the lower temperature does not return the higher speed.
C8_Monotone ==
    \A a, b \in 1..Len(calls) :
        calls[a].temp <= calls[b].temp => RatLeq(calls[a].res, calls[b].res)

\* two calls strictly inside the same interval, with different results
C8_Witness ==
    /\ Len(calls) = 2 /\ Len(curve.points) >= 2
    /\ curve.points[1][1] < calls[2].temp /\ calls[2].temp < calls[1].temp
    /\ calls[1].temp < curve.points[2][1]
    /\ ~RatLeq(calls[1].res, calls[2].res)

\* C9: the scan raises no error to its caller, whatever the tree.
C9_ScanNeverFails == pc # "exit" /\ exit = Running

\* C10: with a non-empty allow-list every card of the registry is named by
\* an entry of it, case-insensitively, and the hardware-monitor subtree of a
\* node that is not named is never accessed; with an empty or absent
\* allow-list every card node looked at has been taken to validation.
C10_AllowList ==
    /\ Truthy(config.cards) =>
          /\ \A i \in 1..Len(cards) : Allowed(cards[i].id)
          /\ \A node \in accessed : Allowed(node)
    /\ ~Truthy(config.cards) =>
          \A j \in 1..Len(listing) :
              (j < scan_i /\ CARD_REGEX(listing[j])) => listing[j] \in accessed

\* card0 was taken through the entry "CARD0", card1 was skipped unaccessed
C10_Witness ==
    /\ Scanned
    /\ config.cards = CardList(<<CARD0>>)
    /\ InRegistry(card0)
    /\ \E j \in 1..Len(listing) : listing[j] = card1
    /\ card1 \notin accessed

\* the positions of the control loop
LoopPcs == {"read_temp", "debug", "sfs_read", "sfs_mode", "sfs_duty", "sfs_ret"}

IsTempRead(e) == e.op = "read" /\ e.ep = "temp1_input"

\* the temperature reads of the tick, oldest first
TempReads == SelectSeq(log, IsTempRead)

\* the place in the log of the i-th temperature read of the tick
TempReadAt(i) ==
    CHOOSE p \in 1..Len(log) :
        IsTempRead(log[p]) /\ Cardinality({q \in 1..p : IsTempRead(log[q])}) = i

\* the place of a name in the listing of ROOT_DIR
ListedAt(node) == CHOOSE j \in 1..Len(listing) : listing[j] = node

\* the number of cards whose temperature the tick has read
Visited == IF pc = "read_temp" THEN card_i - 1 ELSE card_i

\* after its temperature read, card i got its mode write and then its duty
\* write, both before the next temperature read
FullyHandled(i) ==
    LET from == TempReadAt(i)
        upto == IF i < Len(TempReads) THEN TempReadAt(i + 1) ELSE Len(log) + 1
    IN  \E m, d \in (from + 1)..(upto - 1) :
            /\ m < d
            /\ IsWrite(log[m], "pwm1_enable") /\ log[m].ok /\ log[m].card = cards[i].id
            /\ IsWrite(log[d], "pwm1") /\ log[d].ok /\ log[d].card = cards[i].id

\* C11: the registry is not changed while the loop runs; its order is the
\* order the scan met the nodes in; in every tick the temperature reads go
\* through the registry in that order, each card once, and a card has had
\* its mode write and then its duty write before the temperature of the
\* next card is read, so a tick that completes has handled exactly the
\* cards of the registry.
C11_SnapshotOrder ==
    /\ [](pc \in LoopPcs =>
            /\ \A i, j \in 1..Len(cards) :
                  i < j => ListedAt(cards[i].id) < ListedAt(cards[j].id)
            /\ Visited <= Len(cards)
            /\ Len(TempReads) = Visited
            /\ \A i \in 1..Visited : TempReads[i].card = cards[i].id
            /\ \A i \in 1..Visited : (i < Visited \/ pc = "sfs_ret") => FullyHandled(i)
            /\ \A p \in 1..Len(log) : \E i \in 1..Visited : log[p].card = cards[i].id)
    /\ [][(pc \in LoopPcs) => cards' = cards]_vars

\* a tick over the registry <<card1, card0>> has completed
C11_Witness ==
    /\ pc = "sfs_ret" /\ card_i = 2 /\ Len(cards) = 2
    /\ cards[1].id = card1 /\ cards[2].id = card0
    /\ Len(TempReads) = 2 /\ FullyHandled(1) /\ FullyHandled(2)

\* C12: when the configured speed matrix violates a curve invariant that the
\* constructor of Curve checks, the process fails with that ValueError before
\* the device tree is scanned and before any endpoint is accessed, and the
\* loop never starts.
C12_CurveErrorFirst ==
    CurveCheck(config.speed_matrix) # "ok" =>
        /\ pc \in {"start", "exit"}
        /\ scan_i = 1 /\ accessed = {} /\ cards = <<>>
        /\ log = <<>>
        /\ pc = "exit" => exit = Exited("ValueError")

\* C13: the tachometer never ends the control loop: the process never stops
\* on an access of fan1_input, whether the endpoint is missing or its read
\* fails, so the duty of the card is still commanded in that tick.
C13_TachometerNeverFatal ==
    (pc = "exit" /\ log # <<>>) => log[Len(log)].ep # "fan1_input"

\* 'get' has shown its last table and the process has ended
GetCompleted ==
    /\ pc = "exit" /\ exit.err = "SystemExit"
    /\ prompt.command = "get" /\ round = Rounds

\* 'set' has made its writes and the process has ended
SetCompleted ==
    /\ pc = "exit" /\ exit.err = "SystemExit"
    /\ prompt.command = "set"
    /\ log # <<>> /\ log[Len(log)].op = "write" /\ log[Len(log)].ok

\* C14: the monitor ends with status 0 when 'get' has shown its tables, and
\* status 1 comes only from an empty registry, from a write refused for lack
\* of permission, or from the end of 'set'.
C14_ExitStatus ==
    /\ GetCompleted => exit.code = 0
    /\ (pc = "exit" /\ exit.code = 1) =>
          \/ cards = <<>>
          \/ log # <<>> /\ FailedWrite(Len(log))
          \/ SetCompleted

\* the checks of a curve, in the order of the claim, that a matrix violates
Violated(points) ==
    {k \in 1..5 :
        \/ k = 1 /\ \E i \in 1..Len(points) : points[i][2] < 0
        \/ k = 2 /\ \E i \in 1..Len(points) : points[i][2] > 100 * SpeedScale
        \/ k = 3 /\ ~StrictlyIncreasing(temps(points))
        \/ k = 4 /\ ~NonDecreasing(speeds(points))
        \/ k = 5 /\ ~AtLeastFour(speeds(points))}

CheckError ==
    <<"negative speeds", "speeds greater than 100", "points not strictly increasing",
      "speeds not increasing", "lowest speed">>

FirstViolated(points) ==
    CHOOSE k \in Violated(points) : \A j \in Violated(points) : k <= j

\* C15: when a matrix violates several invariants at once, Curve fails with
\* the error of the first violated check in the order negative speed, speed
\* above 100, temperatures not strictly increasing, speeds decreasing,
\* lowest speed below 4; no Curve is produced.
C15_FirstViolatedCheck ==
    (pc # "curve" /\ Cardinality(Violated(config.speed_matrix)) >= 2) =>
        /\ curve.state = "error" /\ curve.points = <<>>
        /\ curve.err = CheckError[FirstViolated(config.speed_matrix)]
        /\ pc = "exit" /\ exit.err = "ValueError"

C15_Witness ==
    /\ pc = "exit"
    /\ Violated(config.speed_matrix) = {3, 4, 5}
    /\ curve.state = "error"
    /\ curve.err = "points not strictly increasing"

\* the last read of temp1_input before position d of the log
LastTempRead(d) ==
    CHOOSE p \in 1..(d - 1) :
        IsTempRead(log[p]) /\ \A q \in (p + 1)..(d - 1) : ~IsTempRead(log[q])

\* the percent the curve gives for a raw reading in millidegrees
PercentOf(raw) == IntOf(get_speed(curve.points, raw \div 1000))

\* C16: nothing is cached: the percent handed to set_fan_speed for a card is
\* the curve's speed, truncated, at the whole degrees of the temperature
\* read from that card in this tick, and the duty written to pwm1 is
\* computed from the bound read in that call of set_fan_speed, just before
\* the mode write.
C16_NoCachedReadings ==
    /\ pc \in (LoopPcs \ {"read_temp"}) =>
          LET t == LastTempRead(Len(log) + 1)
          IN  /\ log[t].card = cards[card_i].id /\ log[t].ok
              /\ speed = PercentOf(log[t].val)
    /\ \A d \in 1..Len(log) :
          IsWrite(log[d], "pwm1") =>
              LET t == LastTempRead(d)
                  p == PercentOf(log[t].val)
              IN  /\ log[t].card = log[d].card
                  /\ log[d - 2].op = "read" /\ log[d - 2].ok
                  /\ log[d - 2].card = log[d].card
                  /\ log[d - 2].ep = BoundRead(p)
                  /\ log[d].val = FanDuty(p, log[d - 2].val, log[d - 2].val)

C16_Witness ==
    /\ pc = "sfs_ret" /\ card_i = 2
    /\ Len(TempReads) = 2 /\ TempReads[1].val # TempReads[2].val
    /\ IsWrite(log[Len(log)], "pwm1") /\ log[Len(log)].ok
    /\ log[Len(log) - 3].ep = "pwm1_max"
    /\ log[Len(log) - 3].val # log[Len(log) - 2].val

FailedTempRead(i) == IsTempRead(log[i]) /\ ~log[i].ok

\* C17: a temperature that cannot be read ends the loop where it happens:
\* the process has stopped on the error, the failed read is the last access,
\* the card it was read from and the cards after it have received no write
\* in the tick, and the stopped process makes no further access and starts
\* no further tick.
C17_TempReadFatal ==
    /\ [](\A i \in 1..Len(log) :
            FailedTempRead(i) =>
                /\ pc = "exit" /\ exit.err = "OSError" /\ i = Len(log)
                /\ log[i].card = cards[card_i].id
                /\ \A w \in 1..Len(log) :
                      log[w].op = "write" =>
                          \E k \in 1..(card_i - 1) : cards[k].id = log[w].card)
    /\ [][(log # <<>> /\ FailedTempRead(Len(log))) => UNCHANGED <<pc, log, card_i, exit>>]_vars

C17_Witness ==
    /\ pc = "exit" /\ Len(cards) = 2 /\ card_i = 1
    /\ log # <<>> /\ FailedTempRead(Len(log))

\* C18: with a curve that satisfies the four invariants, a duty written to
\* pwm1 lies within the bounds of the card: with pwm1_min and pwm1_max as
\* read for the card just before the call, pwm1_min at most pwm1_max, and the
\* bound read in the call agreeing with them.
C18_DutyWithinBounds ==
    \A d \in 1..Len(log) :
        (IsWrite(log[d], "pwm1") /\ CurveInvariants(curve.points)) =>
            LET lo == log[d - 4].val
                hi == log[d - 3].val
                v  == log[d - 2].val
            IN  (/\ log[d - 4].ep = "pwm1_min" /\ log[d - 3].ep = "pwm1_max"
                 /\ 0 <= lo /\ lo <= hi
                 /\ v = (IF log[d - 2].ep = "pwm1_max" THEN hi ELSE lo))
                => (lo <= log[d].val /\ log[d].val <= hi)

\* C19: with any curve the loop runs with, the percent handed to
\* set_fan_speed lies between the first and the last speed of the curve and
\* in 4..100; the interpolated speed is never negative and the percent is
\* never 0 or less.
C19_PercentInRange ==
    (pc \in (LoopPcs \ {"read_temp"}) /\ curve.state = "ok") =>
        LET t == LastTempRead(Len(log) + 1)
            r == get_speed(curve.points, log[t].val \div 1000)
        IN  /\ curve.points[1][2] <= speed * SpeedScale
            /\ speed * SpeedScale <= curve.points[Len(curve.points)][2]
            /\ 4 <= speed /\ speed <= 100
            /\ r.n >= 0

\* C20: the loop never writes system_controlled_fan (2) to pwm1_enable:
\* every write to pwm1_enable carries manual_control (1), and a process that
\* has stopped, on a refused write or on a failed read, writes nothing more.
C20_NeverAuto ==
    /\ [](\A i \in 1..Len(log) :
            IsWrite(log[i], "pwm1_enable") =>
                log[i].val = manual_control /\ log[i].val # system_controlled_fan)
    /\ [][(pc = "exit") => (\A i \in 1..Len(log') : log'[i].op = "write" => i <= Len(log) /\ log[i] = log'[i])]_vars

C20_Witness ==
    /\ pc = "exit" /\ exit.err = "OSError" /\ card_i = 2
    /\ \E i \in 1..Len(log) :
          IsWrite(log[i], "pwm1_enable") /\ log[i].ok /\ log[i].card = cards[1].id

====
